---- MODULE Spec2Model ----
(***************************************************************************)
(* sunpy.util.cond_dispatch: ConditionalDispatch and its helpers           *)
(* (correct_argspec, matches_signature, arginize, matches_types).          *)
(*                                                                         *)
(* Python values are records [t, i, s] (an int, a str or an instance of    *)
(* the class C that defines the methods); a callable is a                  *)
(* record holding what inspect.getargspec reports for it (args, varargs,   *)
(* keywords, defaults), whether inspect.ismethod is true of it, its        *)
(* im_self (the receiver of a bound method; None for a function and for    *)
(* an unbound method, of which inspect.ismethod is true as well), and a    *)
(* tag for what its body does when it is called.  getargspec reports "no   *)
(* defaults" as None and never as an empty tuple, so the empty sequence    *)
(* stands for None in the defaults field; None in varargs / keywords /     *)
(* im_self is the string "None", which no Python parameter can be named.   *)
(*                                                                         *)
(* Outside the model: callables inspect.getargspec cannot introspect, and  *)
(* default values that cannot be put in a set (matches_signature builds    *)
(* set(defaults)).  The two TypeErrors __call__ raises itself differ in    *)
(* their message only; they are named "NoMatchingSignature" (lines         *)
(* 112-115) and "NoSatisfiedCondition" (lines 108-110), and "TypeError" is *)
(* the one Python raises for a call that does not bind (an unbound method  *)
(* called without an instance of its class as first argument included, and *)
(* a call of the dispatcher itself with a keyword named self).             *)
(***************************************************************************)
EXTENDS Integers, Sequences, FiniteSets, TLC

\* funcs, nones: the two lists of a ConditionalDispatch.  last: the latest
\* operation with its arguments and what it did.  order: for every entry,
\* in registration order, the list it was appended to (a history of the
\* add calls).  pending: the input of the specifications that apply one
\* function once.
VARIABLES funcs, nones, last, order, pending

vars == <<funcs, nones, last, order, pending>>

\* ------------------------------------------------------------------ bounds
MaxEntries == 3
MaxPos == 3
MaxTypes == 2

\* ------------------------------------------------------------------ values
None == "None"

IntVal(n) == [t |-> "int", i |-> n, s |-> ""]

StrVal(str) == [t |-> "str", i |-> 0, s |-> str]

\* C(): an instance of the class whose methods the model registers
InstVal == [t |-> "C", i |-> 0, s |-> ""]

\* isinstance(obj, cls) for the classes object, int, basestring and C
isinstance(obj, cls) ==
    CASE cls = "object"     -> TRUE
      [] cls = "C"          -> obj.t = "C"
      [] cls = "int"        -> obj.t = "int"
      [] cls = "basestring" -> obj.t = "str"
      [] OTHER              -> FALSE

Range(seq) == {seq[k] : k \in 1..Len(seq)}

SeqsUpTo(S, n) == UNION {[1..k -> S] : k \in 0..n}

Min(m, n) == IF m <= n THEN m ELSE n

\* a[n:] of Python: the elements after the first n (empty when n >= len(a))
SliceFrom(seq, n) == SubSeq(seq, n + 1, Len(seq))

\* -------------------------------------------------------- pure functions
\* correct_argspec(fun): getargspec, minus the first argument of a method
correct_argspec(fun) ==
    [args     |-> IF fun.ismethod THEN SliceFrom(fun.args, 1) ELSE fun.args,
     varargs  |-> fun.varargs,
     keywords |-> fun.keywords,
     defaults |-> fun.defaults]

\* rest > defs of Python sets: a proper superset.  rest holds parameter
\* names (str), defs holds default VALUES.
ProperSuperset(rest, defs) == defs \subseteq rest /\ defs # rest

\* matches_signature without its first test (line 44)
matches_signature_no_arity(fun, a, kw) ==
    LET spec  == correct_argspec(fun)
        sargs == Range(SliceFrom(spec.args, Len(a)))
        rest  == {StrVal(n) : n \in sargs \ DOMAIN kw}
    IN  IF spec.keywords = None /\ (DOMAIN kw) \ sargs # {}
        THEN FALSE
        ELSE ~ProperSuperset(rest, Range(spec.defaults))

\* matches_signature(fun, a, kw)
matches_signature(fun, a, kw) ==
    LET spec  == correct_argspec(fun)
        skw   == DOMAIN kw
        sargs == Range(SliceFrom(spec.args, Len(a)))
        rest  == {StrVal(n) : n \in sargs \ skw}
        defs  == Range(spec.defaults)
    IN  IF spec.varargs = None /\ Len(a) > Len(spec.args)
        THEN FALSE
        ELSE IF spec.keywords = None /\ skw \ sargs # {}
        THEN FALSE
        ELSE IF ProperSuperset(rest, defs)
        THEN FALSE
        ELSE TRUE

\* arginize(fun, a, kw): [exc, val]; exc is "None" when it returns val
arginize(fun, a, kw) ==
    LET spec  == correct_argspec(fun)
        names == SliceFrom(spec.args, Len(a))
    IN  IF spec.varargs # None \/ spec.keywords # None
        THEN [exc |-> "ValueError", val |-> <<>>]
        ELSE IF \E k \in 1..Len(names) : names[k] \notin DOMAIN kw
        THEN [exc |-> "KeyError", val |-> <<>>]
        ELSE [exc |-> "None",
              val |-> a \o [k \in 1..Len(names) |-> kw[names[k]]]]

\* matches_types(fun, types, args, kwargs): "True", "False", or the name of
\* the exception arginize raised (its call is evaluated before izip runs)
matches_types(fun, types, args, kwargs) ==
    LET bound == arginize(fun, args, kwargs)
    IN  IF bound.exc # "None"
        THEN bound.exc
        ELSE IF \A k \in 1..Min(Len(bound.val), Len(types)) :
                    isinstance(bound.val[k], types[k])
        THEN "True"
        ELSE "False"

\* ------------------------------------------------------ calling a callable
\* The number of positional arguments a callable supplies itself: a bound
\* method passes its receiver (im_self) before the arguments of the call;
\* a function and an unbound method pass nothing
Receiver(f) == IF f.ismethod /\ f.im_self # None THEN 1 ELSE 0

\* inspect.ismethod(f) with im_self None: C.f, taken from the class
IsUnbound(f) == f.ismethod /\ f.im_self = None

\* The parameters correct_argspec keeps that carry a default: the defaults
\* belong to the last len(defaults) of the function's args
Defaulted(fun) ==
    {fun.args[k] : k \in {j \in ((IF fun.ismethod THEN 1 ELSE 0) + 1)..Len(fun.args) :
                              j > Len(fun.args) - Len(fun.defaults)}}

\* Whether Python can bind the call f(*a, **kw); otherwise the call raises
\* TypeError before the body runs.  The call of a bound method is the call
\* of its function with the receiver as first positional argument, so a
\* keyword that names the receiver is a second value for it.  The call of
\* an unbound method is the call of its function on the arguments as they
\* are, once the first positional one is an instance of the class.
Binds(f, a, kw) ==
    LET P == f.args
        n == Len(a) + Receiver(f)
    IN  /\ IsUnbound(f) => Len(a) >= 1 /\ isinstance(a[1], "C")
        /\ n > Len(P) => f.varargs # None
        /\ \A key \in DOMAIN kw :
              IF \E k \in 1..Len(P) : P[k] = key
              THEN \E k \in (n + 1)..Len(P) : P[k] = key
              ELSE f.keywords # None
        /\ \A k \in (n + 1)..Len(P) :
              P[k] \in DOMAIN kw \/ k > Len(P) - Len(f.defaults)

\* The value parameter k of f (counted after the receiver the callable
\* supplies itself) receives in a call that binds
BoundValue(f, a, kw, k) ==
    LET P == f.args
        r == k + Receiver(f)
    IN  IF k <= Len(a) THEN a[k]
        ELSE IF P[r] \in DOMAIN kw THEN kw[P[r]]
        ELSE f.defaults[r - (Len(P) - Len(f.defaults))]

\* v > 0 in CPython 2, where every number orders below every object that
\* is not a number
Gt0(v) == IF v.t = "int" THEN v.i > 0 ELSE TRUE

\* f(*a, **kw): "TypeError" when the call does not bind, else what the body
\* does: a condition yields "True" or "False", a handler "Return", and
\* either may raise ("UserError").
Apply(f, a, kw) ==
    IF ~Binds(f, a, kw) THEN "TypeError"
    ELSE CASE f.body = "true"   -> "True"
           [] f.body = "false"  -> "False"
           [] f.body = "gt0_1"  -> IF Gt0(BoundValue(f, a, kw, 1)) THEN "True" ELSE "False"
           [] f.body = "gt0_2"  -> IF Gt0(BoundValue(f, a, kw, 2)) THEN "True" ELSE "False"
           [] f.body = "return" -> "Return"
           [] OTHER             -> "UserError"

IsException(res) == res \in {"TypeError", "UserError", "KeyError", "ValueError"}

\* --------------------------------------------------------------- registry
NoTypes == [none |-> TRUE, list |-> <<>>]

TypeList(l) == [none |-> FALSE, list |-> l]

\* a function (ismethod FALSE) or a bound method (ismethod TRUE)
Callable(name, args, varargs, keywords, defaults, ismethod, body) ==
    [name |-> name, args |-> args, varargs |-> varargs, keywords |-> keywords,
     defaults |-> defaults, ismethod |-> ismethod,
     im_self |-> IF ismethod THEN "receiver" ELSE None, body |-> body]

\* the unbound method of a bound one: C.f for C().f
Unbound(f) == [f EXCEPT !.im_self = None]

\* condition=None
NoCondition == Callable("None", <<>>, None, None, <<>>, FALSE, "none")

\* matches_signature(fun, args, kwargs) and
\*   (types is None or matches_types(fun, types, args, kwargs))
Gate(fun, types, a, kw) ==
    IF ~matches_signature(fun, a, kw) THEN "False"
    ELSE IF types.none THEN "True"
    ELSE matches_types(fun, types.list, a, kw)

\* one step of __call__: the gate of an entry, its condition or its handler
\* evaluated, on which arguments and with what result
Event(ev, list, idx, res, a, kw) ==
    [ev |-> ev, list |-> list, idx |-> idx, res |-> res, args |-> a, kwargs |-> kw]

Raised(exc, list, idx, matched, tr) ==
    [kind |-> "raise", exc |-> exc, list |-> list, idx |-> idx,
     matched |-> matched, trace |-> tr]

Returned(list, idx, matched, tr) ==
    [kind |-> "return", exc |-> "None", list |-> list, idx |-> idx,
     matched |-> matched, trace |-> tr]

\* the result of fun(*args, **kwargs) for the selected entry
RunHandler(fun, a, kw, list, idx, matched, tr) ==
    LET h   == Apply(fun, a, kw)
        tr2 == Append(tr, Event("handler", list, idx, h, a, kw))
    IN  IF h = "Return" THEN Returned(list, idx, matched, tr2)
        ELSE Raised(h, list, idx, matched, tr2)

\* the final raise with its two messages exchanged
NoHandler_swapped(matched, tr) ==
    Raised(IF matched THEN "NoMatchingSignature" ELSE "NoSatisfiedCondition",
           "none", 0, matched, tr)

\* the final raise of __call__ (lines 107-115)
NoHandler(matched, tr) ==
    Raised(IF matched THEN "NoSatisfiedCondition" ELSE "NoMatchingSignature",
           "none", 0, matched, tr)

\* for fun, types in self.nones (lines 102-105), from entry i on
RECURSIVE ScanNones(_, _, _, _, _, _)
ScanNones(ns, i, a, kw, matched, tr) ==
    IF i > Len(ns) THEN NoHandler(matched, tr)
    ELSE LET e   == ns[i]
             g   == Gate(e.fun, e.types, a, kw)
             tr1 == Append(tr, Event("gate", "nones", i, g, a, kw))
         IN  IF IsException(g) THEN Raised(g, "nones", i, matched, tr1)
             ELSE IF g = "True"
             THEN RunHandler(e.fun, a, kw, "nones", i, matched, tr1)
             ELSE ScanNones(ns, i + 1, a, kw, matched, tr1)

RECURSIVE ScanFuncs(_, _, _, _, _, _, _)
\* the loop without its return: a later entry that fires as well wins
ScanFuncs_last_match(fs, ns, i, a, kw, matched, tr) ==
    IF i > Len(fs) THEN ScanNones(ns, 1, a, kw, matched, tr)
    ELSE LET e   == fs[i]
             g   == Gate(e.fun, e.types, a, kw)
             tr1 == Append(tr, Event("gate", "funcs", i, g, a, kw))
         IN  IF IsException(g) THEN Raised(g, "funcs", i, matched, tr1)
             ELSE IF g = "False"
             THEN ScanFuncs(fs, ns, i + 1, a, kw, matched, tr1)
             ELSE LET c   == Apply(e.condition, a, kw)
                      tr2 == Append(tr1, Event("cond", "funcs", i, c, a, kw))
                  IN  IF IsException(c) THEN Raised(c, "funcs", i, TRUE, tr2)
                      ELSE IF /\ c = "True"
                              /\ ~\E j \in (i + 1)..Len(fs) :
                                     /\ Gate(fs[j].fun, fs[j].types, a, kw) = "True"
                                     /\ Apply(fs[j].condition, a, kw) = "True"
                      THEN RunHandler(e.fun, a, kw, "funcs", i, TRUE, tr2)
                      ELSE ScanFuncs(fs, ns, i + 1, a, kw, TRUE, tr2)

\* the loop with the condition's call wrapped in try/except: a condition
\* that raises counts as false
ScanFuncs_swallow(fs, ns, i, a, kw, matched, tr) ==
    IF i > Len(fs) THEN ScanNones(ns, 1, a, kw, matched, tr)
    ELSE LET e   == fs[i]
             g   == Gate(e.fun, e.types, a, kw)
             tr1 == Append(tr, Event("gate", "funcs", i, g, a, kw))
         IN  IF IsException(g) THEN Raised(g, "funcs", i, matched, tr1)
             ELSE IF g = "False"
             THEN ScanFuncs(fs, ns, i + 1, a, kw, matched, tr1)
             ELSE LET c   == Apply(e.condition, a, kw)
                      tr2 == Append(tr1, Event("cond", "funcs", i, c, a, kw))
                  IN  IF c = "True"
                      THEN RunHandler(e.fun, a, kw, "funcs", i, TRUE, tr2)
                      ELSE ScanFuncs(fs, ns, i + 1, a, kw, TRUE, tr2)

\* for fun, condition, types in self.funcs (lines 96-101), from entry i on;
\* when the list is exhausted the loop over self.nones follows
ScanFuncs(fs, ns, i, a, kw, matched, tr) ==
    IF i > Len(fs) THEN ScanNones(ns, 1, a, kw, matched, tr)
    ELSE LET e   == fs[i]
             g   == Gate(e.fun, e.types, a, kw)
             tr1 == Append(tr, Event("gate", "funcs", i, g, a, kw))
         IN  IF IsException(g) THEN Raised(g, "funcs", i, matched, tr1)
             ELSE IF g = "False"
             THEN ScanFuncs(fs, ns, i + 1, a, kw, matched, tr1)
             ELSE LET c   == Apply(e.condition, a, kw)
                      tr2 == Append(tr1, Event("cond", "funcs", i, c, a, kw))
                  IN  IF IsException(c) THEN Raised(c, "funcs", i, TRUE, tr2)
                      ELSE IF c = "True"
                      THEN RunHandler(e.fun, a, kw, "funcs", i, TRUE, tr2)
                      ELSE ScanFuncs(fs, ns, i + 1, a, kw, TRUE, tr2)

\* Whether d(*a, **kw) binds to def __call__(self, *args, **kwargs): the
\* dispatcher is the first positional argument, so a keyword named self
\* is a second value for it
CallBinds(kw) == "self" \notin DOMAIN kw

\* __call__ with its two loops exchanged: the catch-alls are tried first
Dispatch_nones_first(fs, ns, a, kw) ==
    IF ~CallBinds(kw) THEN Raised("TypeError", "none", 0, FALSE, <<>>)
    ELSE LET r == ScanNones(ns, 1, a, kw, FALSE, <<>>)
         IN  IF r.exc = "NoMatchingSignature"
             THEN ScanFuncs(fs, <<>>, 1, a, kw, FALSE, r.trace)
             ELSE r

\* d(*a, **kw) for a ConditionalDispatch d with the lists fs and ns: the
\* TypeError of a call that does not bind, raised before the body of
\* __call__ runs, or else what the body does
Dispatch(fs, ns, a, kw) ==
    IF ~CallBinds(kw) THEN Raised("TypeError", "none", 0, FALSE, <<>>)
    ELSE ScanFuncs(fs, ns, 1, a, kw, FALSE, <<>>)

\* add comparing the parameter names alone
AddOutcome_names_only(fun, condition) ==
    IF condition = NoCondition THEN "nones"
    ELSE IF correct_argspec(fun).args # correct_argspec(condition).args THEN "ValueError"
    ELSE "funcs"

\* what ConditionalDispatch.add does: "nones", "funcs" (the list appended
\* to) or "ValueError"
AddOutcome(fun, condition) ==
    IF condition = NoCondition THEN "nones"
    ELSE IF correct_argspec(fun) # correct_argspec(condition) THEN "ValueError"
    ELSE "funcs"

\* ---------------------------------------------------------------- actions
NoPending ==
    [op |-> "none", fun |-> NoCondition, condition |-> NoCondition,
     types |-> NoTypes, args |-> <<>>, kwargs |-> <<>>]

\* ConditionalDispatch.__init__
Init ==
    /\ funcs = <<>>
    /\ nones = <<>>
    /\ last = [op |-> "init"]
    /\ order = <<>>
    /\ pending = NoPending

\* add appending the conditioned entry before it compares the argspecs
add_append_first(fun, condition, types) ==
    LET out == AddOutcome(fun, condition)
    IN  /\ Len(funcs) + Len(nones) < MaxEntries
        /\ funcs' = IF out = "nones"
                    THEN funcs
                    ELSE Append(funcs, [fun |-> fun, condition |-> condition, types |-> types])
        /\ nones' = IF out = "nones"
                    THEN Append(nones, [fun |-> fun, types |-> types])
                    ELSE nones
        /\ last' = [op |-> "add", fun |-> fun, condition |-> condition,
                    types |-> types,
                    exc |-> IF out = "ValueError" THEN "ValueError" ELSE "None"]
        /\ order' = Append(order, IF out = "nones" THEN "nones" ELSE "funcs")

\* ConditionalDispatch.add(fun, condition, types)
add(fun, condition, types) ==
    LET out == AddOutcome(fun, condition)
    IN  /\ out # "ValueError" => Len(funcs) + Len(nones) < MaxEntries
        /\ funcs' = IF out = "funcs"
                    THEN Append(funcs, [fun |-> fun, condition |-> condition, types |-> types])
                    ELSE funcs
        /\ nones' = IF out = "nones"
                    THEN Append(nones, [fun |-> fun, types |-> types])
                    ELSE nones
        /\ last' = [op |-> "add", fun |-> fun, condition |-> condition,
                    types |-> types,
                    exc |-> IF out = "ValueError" THEN "ValueError" ELSE "None"]
        /\ order' = IF out = "ValueError" THEN order ELSE Append(order, out)

\* __call__ taking the conditioned entries off the list as it visits them
call_consuming(args, kwargs) ==
    /\ last' = [op |-> "call", args |-> args, kwargs |-> kwargs,
                result |-> Dispatch(funcs, nones, args, kwargs)]
    /\ funcs' = IF Len(funcs) > 0 THEN Tail(funcs) ELSE funcs
    /\ UNCHANGED <<nones, order>>

\* ConditionalDispatch.__call__(*args, **kwargs)
call(args, kwargs) ==
    /\ last' = [op |-> "call", args |-> args, kwargs |-> kwargs,
                result |-> Dispatch(funcs, nones, args, kwargs)]
    /\ UNCHANGED <<funcs, nones, order>>

\* ------------------------------------------------- the dispatcher's inputs
\* Handlers and conditions registered by the runs of Spec.  h_pos / c_pos /
\* h_any, h_def / c_def and h_two are the handlers of the documented
\* scenarios; from_url is CallistoSpectrogram.from_url, a bound classmethod
\* registered with types=[basestring].
h_pos == Callable("h_pos", <<"x">>, None, None, <<>>, FALSE, "return")

h_any == Callable("h_any", <<"x">>, None, None, <<>>, FALSE, "return")

h_def == Callable("h_def", <<"x", "y">>, None, None, <<IntVal(10)>>, FALSE, "return")

h_two == Callable("h_two", <<"x", "y">>, None, None, <<>>, FALSE, "return")

h_boom == Callable("h_boom", <<"x">>, None, "kw", <<>>, FALSE, "raise")

h_var == Callable("h_var", <<>>, "a", None, <<>>, FALSE, "return")

from_url == Callable("from_url", <<"cls", "url">>, None, None, <<>>, TRUE, "return")

\* a classmethod that also takes **kw
from_kw == Callable("from_kw", <<"cls", "url">>, None, "kw", <<>>, TRUE, "return")

\* C.two for def two(self, x=10): an unbound method
two == Unbound(Callable("two", <<"self", "x">>, None, None, <<IntVal(10)>>, TRUE, "return"))

c_pos == Callable("c_pos", <<"x">>, None, None, <<>>, FALSE, "gt0_1")

c_true == Callable("c_true", <<"x">>, None, "kw", <<>>, FALSE, "true")

c_boom == Callable("c_boom", <<"x">>, None, None, <<>>, FALSE, "raise")

c_def == Callable("c_def", <<"x", "y">>, None, None, <<IntVal(10)>>, FALSE, "gt0_2")

c_var == Callable("c_var", <<>>, "a", None, <<>>, FALSE, "true")

Registration(fun, condition, types) ==
    [fun |-> fun, condition |-> condition, types |-> types]

Registrations ==
    { Registration(h_pos, c_pos, TypeList(<<"object">>)),
      Registration(h_any, NoCondition, NoTypes),
      Registration(h_def, c_def, NoTypes),
      Registration(h_def, NoCondition, TypeList(<<"int", "int">>)),
      Registration(h_two, c_pos, NoTypes),
      Registration(h_any, c_boom, NoTypes),
      Registration(h_boom, c_true, NoTypes),
      Registration(h_var, c_var, TypeList(<<"int">>)),
      Registration(from_url, NoCondition, TypeList(<<"basestring">>)),
      Registration(from_kw, NoCondition, NoTypes),
      Registration(two, NoCondition, NoTypes) }

NoKw == <<>>

Kw1(key, v) == [k \in {key} |-> v]

Invocation(args, kwargs) == [args |-> args, kwargs |-> kwargs]

Invocations ==
    { Invocation(<<>>, NoKw),
      Invocation(<<IntVal(5)>>, NoKw),
      Invocation(<<IntVal(-1)>>, NoKw),
      Invocation(<<StrVal("s")>>, NoKw),
      Invocation(<<IntVal(5), IntVal(5)>>, NoKw),
      Invocation(<<IntVal(5), IntVal(-1)>>, NoKw),
      Invocation(<<IntVal(5), IntVal(5), IntVal(5)>>, NoKw),
      Invocation(<<>>, Kw1("x", IntVal(1))),
      Invocation(<<>>, Kw1("y", IntVal(5))),
      Invocation(<<IntVal(5)>>, Kw1("y", IntVal(-1))),
      Invocation(<<IntVal(5)>>, Kw1("z", IntVal(5))),
      Invocation(<<StrVal("s")>>, Kw1("cls", IntVal(5))),
      Invocation(<<InstVal>>, NoKw),
      Invocation(<<>>, Kw1("self", IntVal(5))),
      Invocation(<<IntVal(5)>>, Kw1("self", IntVal(5))) }

Register ==
    \E r \in Registrations :
        add(r.fun, r.condition, r.types) /\ UNCHANGED pending

Invoke ==
    \E c \in Invocations :
        call(c.args, c.kwargs) /\ UNCHANGED pending

Next == Register \/ Invoke

Spec == Init /\ [][Next]_vars

\* ------------------------------------------------ reading the latest call
LastCall == last.op = "call"

\* the latest call reached the body of __call__
Entered == LastCall /\ CallBinds(last.kwargs)

\* the latest call failed to bind: the TypeError of the call itself, and
\* no gate, condition or handler was evaluated
FailedToBind ==
    /\ last.result.kind = "raise" /\ last.result.exc = "TypeError"
    /\ last.result.list = "none"
    /\ last.result.trace = <<>>

Trace == last.result.trace

HandlerEvents == {k \in 1..Len(Trace) : Trace[k].ev = "handler"}

\* the gate of entry i of a list on the latest call's arguments
GateAt(list, i) ==
    IF list = "funcs"
    THEN Gate(funcs[i].fun, funcs[i].types, last.args, last.kwargs)
    ELSE Gate(nones[i].fun, nones[i].types, last.args, last.kwargs)

\* the condition of conditioned entry i on the latest call's arguments
CondAt(i) == Apply(funcs[i].condition, last.args, last.kwargs)

\* conditioned entry i passes its gate and its condition is true
Fires(i) == GateAt("funcs", i) = "True" /\ CondAt(i) = "True"

\* the scan of the conditioned entries cannot go past entry i
Stops(i) ==
    \/ IsException(GateAt("funcs", i))
    \/ GateAt("funcs", i) = "True" /\ CondAt(i) # "False"

\* exactly one handler ran: that of conditioned entry i, on the original
\* arguments, as the last thing the call did, and nothing of a later entry
\* or of an unconditioned entry was evaluated
RanOnlyConditioned(i) ==
    /\ Cardinality(HandlerEvents) = 1
    /\ \A k \in HandlerEvents :
          /\ k = Len(Trace)
          /\ Trace[k].list = "funcs" /\ Trace[k].idx = i
          /\ Trace[k].args = last.args /\ Trace[k].kwargs = last.kwargs
    /\ \A k \in 1..Len(Trace) :
          Trace[k].ev \in {"cond", "handler"} =>
              Trace[k].list = "funcs" /\ Trace[k].idx <= i

\* C1 as claimed: whenever some conditioned entry passes its gate with a
\* true condition, invoke runs exactly the handler of the earliest such
\* entry, on the original arguments, and evaluates nothing after it.
C1_FirstMatchWins_AsClaimed ==
    LastCall =>
        \A i \in 1..Len(funcs) :
            (Fires(i) /\ \A j \in 1..(i - 1) : ~Fires(j)) => RanOnlyConditioned(i)

\* C1 amended: an invoke whose arguments do not bind to invoke's own
\* parameters (a named argument called self) fails with that binding error
\* and evaluates nothing, whatever the entries would do; any other invoke
\* scans the conditioned entries in insertion order up to the first one
\* whose gate or condition raises or whose gate passes with a true
\* condition; if that entry fires, exactly its handler runs, on the
\* original arguments, and nothing after it is evaluated; if it raises,
\* that error leaves invoke and no handler runs.
C1_FirstMatchWins ==
    /\ (LastCall /\ ~Entered) => FailedToBind
    /\ Entered =>
        \A i \in 1..Len(funcs) :
            (Stops(i) /\ \A j \in 1..(i - 1) : ~Stops(j)) =>
                IF Fires(i)
                THEN RanOnlyConditioned(i)
                ELSE /\ HandlerEvents = {}
                     /\ last.result.kind = "raise"
                     /\ last.result.list = "funcs" /\ last.result.idx = i
                     /\ last.result.exc =
                            (IF IsException(GateAt("funcs", i))
                             THEN GateAt("funcs", i) ELSE CondAt(i))
                     /\ \A k \in 1..Len(Trace) :
                            Trace[k].list = "funcs" /\ Trace[k].idx <= i

\* C1 witness: two conditioned entries both fire and the first one ran
C1_Witness ==
    /\ LastCall
    /\ Len(funcs) >= 2
    /\ Fires(1) /\ Fires(2)
    /\ funcs[1].fun # funcs[2].fun
    /\ last.result.kind = "return"
    /\ last.result.list = "funcs" /\ last.result.idx = 1

EntryPos == [fun |-> h_pos, condition |-> c_pos, types |-> TypeList(<<"object">>)]

EntryAny == [fun |-> h_any, types |-> NoTypes]

\* C2: an unconditioned handler runs only after every conditioned entry was
\* considered and none fired, and it is the first unconditioned entry whose
\* gate passes; with h_pos(x) under x > 0 and the catch-all h_any(x),
\* invoke(5) runs h_pos and invoke(-1) runs h_any.
C2_UnconditionedLast ==
    LastCall =>
        /\ \A k \in HandlerEvents :
              Trace[k].list = "nones" =>
                  /\ \A i \in 1..Len(funcs) :
                        /\ ~Fires(i)
                        /\ \E m \in 1..(k - 1) :
                              /\ Trace[m].ev = "gate"
                              /\ Trace[m].list = "funcs" /\ Trace[m].idx = i
                  /\ GateAt("nones", Trace[k].idx) = "True"
                  /\ \A j \in 1..(Trace[k].idx - 1) : GateAt("nones", j) = "False"
        /\ (funcs = <<EntryPos>> /\ nones = <<EntryAny>> /\ last.kwargs = NoKw) =>
              /\ last.args = <<IntVal(5)>> =>
                    /\ last.result.kind = "return"
                    /\ last.result.list = "funcs" /\ last.result.idx = 1
              /\ last.args = <<IntVal(-1)>> =>
                    /\ last.result.kind = "return"
                    /\ last.result.list = "nones" /\ last.result.idx = 1

\* C2 witness: h_any was registered before h_pos, and invoke(5) ran h_pos
C2_Witness ==
    /\ LastCall
    /\ order = <<"nones", "funcs">>
    /\ funcs = <<EntryPos>> /\ nones = <<EntryAny>>
    /\ last.args = <<IntVal(5)>> /\ last.kwargs = NoKw
    /\ last.result.kind = "return" /\ last.result.list = "funcs"

AllGates ==
    {GateAt("funcs", i) : i \in 1..Len(funcs)} \cup
    {GateAt("nones", j) : j \in 1..Len(nones)}

\* C3 as claimed: an invoke that selects no handler fails with
\* NoMatchingSignature or with NoSatisfiedCondition, and with nothing else.
C3_TwoFailureKinds_AsClaimed ==
    (LastCall /\ HandlerEvents = {}) =>
        last.result.exc \in {"NoMatchingSignature", "NoSatisfiedCondition"}

\* C3 amended: an invoke that selects no handler either fails with the
\* binding error of the call itself (a named argument called self), before
\* any entry is considered, or passes on the error an entry's gate or
\* condition raised, or fails with NoMatchingSignature when no entry's gate
\* accepted the call, or with NoSatisfiedCondition when a conditioned
\* entry's gate passed, every such condition was false and no
\* unconditioned entry's gate passed.
C3_TwoFailureKinds ==
    (LastCall /\ HandlerEvents = {}) =>
        /\ last.result.kind = "raise"
        /\ ~Entered => FailedToBind
        /\ Entered =>
           \/ /\ Len(Trace) > 0
              /\ Trace[Len(Trace)].ev \in {"gate", "cond"}
              /\ IsException(Trace[Len(Trace)].res)
              /\ last.result.exc = Trace[Len(Trace)].res
           \/ /\ last.result.exc = "NoMatchingSignature"
              /\ AllGates \subseteq {"False"}
           \/ /\ last.result.exc = "NoSatisfiedCondition"
              /\ \E i \in 1..Len(funcs) : GateAt("funcs", i) = "True"
              /\ \A i \in 1..Len(funcs) :
                    /\ GateAt("funcs", i) \in {"True", "False"}
                    /\ GateAt("funcs", i) = "True" => CondAt(i) = "False"
              /\ \A j \in 1..Len(nones) : GateAt("nones", j) = "False"

\* C3 witness: a conditioned gate passed, its condition was false, and the
\* gate of the unconditioned entry refused the call
C3_Witness ==
    /\ LastCall
    /\ Len(funcs) >= 1 /\ Len(nones) >= 1
    /\ last.result.exc = "NoSatisfiedCondition"

IsPrefix(s1, s2) == Len(s1) <= Len(s2) /\ SubSeq(s2, 1, Len(s1)) = s1

\* C4: a register whose condition's argspec differs from the handler's
\* raises and leaves both lists as they were; any other register appends
\* one entry to one list and leaves the other list alone.
C4_RegisterAtomic ==
    [][last'.op = "add" =>
         IF /\ last'.condition # NoCondition
            /\ correct_argspec(last'.fun) # correct_argspec(last'.condition)
         THEN last'.exc = "ValueError" /\ funcs' = funcs /\ nones' = nones
         ELSE /\ last'.exc = "None"
              /\ IF last'.condition = NoCondition
                 THEN /\ funcs' = funcs
                      /\ nones' = Append(nones, [fun |-> last'.fun, types |-> last'.types])
                 ELSE /\ nones' = nones
                      /\ funcs' = Append(funcs, [fun |-> last'.fun,
                                                 condition |-> last'.condition,
                                                 types |-> last'.types])
      ]_vars

\* C4 witness: h_two(x, y) offered with a condition on (x) was refused by a
\* registry that holds entries
C4_Witness ==
    /\ last.op = "add"
    /\ last.exc = "ValueError"
    /\ last.fun = h_two /\ last.condition = c_pos
    /\ Len(funcs) >= 1 /\ Len(nones) >= 1

\* C8: invoke leaves both lists as they are, whether it returns or raises;
\* no step removes or reorders an entry; and the same arguments dispatched
\* on the registry an invoke left behind select the same handler, or fail
\* in the same way, as that invoke did.
C8_InvokeFrame ==
    [][/\ last'.op = "call" =>
            /\ funcs' = funcs /\ nones' = nones
            /\ last'.result = Dispatch(funcs', nones', last'.args, last'.kwargs)
       /\ IsPrefix(funcs, funcs') /\ IsPrefix(nones, nones')
      ]_vars

\* C8 witness: an invoke ran a handler of a registry with entries in both
\* lists
C8_Witness ==
    /\ LastCall
    /\ Len(funcs) >= 1 /\ Len(nones) >= 1
    /\ last.result.kind = "return"

CondEvents == {k \in 1..Len(Trace) : Trace[k].ev = "cond"}

\* what C10 says of the trace of the latest call
C10_Trace ==
    /\ \A k \in CondEvents :
          /\ Trace[k].list = "funcs"
          /\ GateAt("funcs", Trace[k].idx) = "True"
          /\ \A m \in CondEvents : m < k => Trace[m].idx < Trace[k].idx
    /\ \A k \in 1..Len(Trace) :
          (Trace[k].ev \in {"cond", "handler"} /\ IsException(Trace[k].res)) =>
              /\ k = Len(Trace)
              /\ last.result.kind = "raise"
              /\ last.result.exc = Trace[k].res
              /\ last.result.list = Trace[k].list
              /\ last.result.idx = Trace[k].idx

\* C10: conditions are evaluated only for conditioned entries whose gate
\* passed, once each and in insertion order; an error raised by a condition
\* or by the selected handler is the error invoke raises, nothing is
\* evaluated after it, and the registry is unchanged.
C10_ErrorsPropagate ==
    [][last'.op = "call" => C10_Trace' /\ funcs' = funcs /\ nones' = nones]_vars

\* C10 witness: the condition of the first entry raised while a second
\* conditioned entry and a catch-all would have accepted the call
C10_Witness ==
    /\ LastCall
    /\ Len(funcs) >= 2 /\ Len(nones) >= 1
    /\ CondAt(1) = "UserError"
    /\ Fires(2)
    /\ GateAt("nones", 1) = "True"
    /\ last.result.exc = "UserError"
    /\ last.result.list = "funcs" /\ last.result.idx = 1

\* ------------------------------------- the helper functions on their own
\* Signatures: every argspec over the parameter names x and y, with and
\* without *a and **kw, with defaults drawn from DefaultValues for a suffix
\* of the parameters, as a function, as a bound method and as an unbound
\* method, and the methods of def f(*a) and def f(*a, **kw), whose receiver
\* arrives in *a.
ParamNames == {"x", "y"}

DefaultValues == {IntVal(10), StrVal("x")}

CallValues == {IntVal(5), StrVal("s")}

KeywordNames == {"x", "y", "z"}

Classes == {"int", "basestring"}

ArgLists ==
    {l \in SeqsUpTo(ParamNames, Cardinality(ParamNames)) :
        \A j, k \in 1..Len(l) : j # k => l[j] # l[k]}

BoundOrFunction ==
    {Callable("f", IF sg[5] THEN <<"self">> \o sg[1] ELSE sg[1],
              sg[3], sg[4], sg[2], sg[5], "return") :
        sg \in {t \in ArgLists \X SeqsUpTo(DefaultValues, Cardinality(ParamNames))
                         \X {None, "a"} \X {None, "kw"} \X BOOLEAN :
                   Len(t[2]) <= Len(t[1])}}
    \cup {Callable("f", <<>>, "a", k, <<>>, TRUE, "return") : k \in {None, "kw"}}

Signatures ==
    BoundOrFunction \cup {Unbound(f) : f \in {g \in BoundOrFunction : g.ismethod}}

\* the same argspecs with the variadic parameters under other names
Renamed ==
    {[f EXCEPT !.varargs = "args"] : f \in {g \in Signatures : g.varargs # None}}
    \cup {[f EXCEPT !.keywords = "kwargs"] : f \in {g \in Signatures : g.keywords # None}}

Dicts == UNION {[K -> CallValues] : K \in SUBSET KeywordNames}

\* the calls on ints and strs, and those that pass an instance of C first
Calls ==
    {Invocation(a, kw) : a \in SeqsUpTo(CallValues, MaxPos), kw \in Dicts}
    \cup {Invocation(<<InstVal>> \o a, kw) :
              a \in SeqsUpTo(CallValues, MaxPos - 1), kw \in Dicts}

TypeLists == {TypeList(l) : l \in SeqsUpTo(Classes, MaxTypes)}

Pending(op, fun, condition, types, args, kwargs) ==
    [op |-> op, fun |-> fun, condition |-> condition, types |-> types,
     args |-> args, kwargs |-> kwargs]

InitRegistry ==
    /\ funcs = <<>>
    /\ nones = <<>>
    /\ last = [op |-> "init"]
    /\ order = <<>>

\* matches_signature, applied once to an argspec and a call
InitSignature ==
    /\ InitRegistry
    /\ \E f \in Signatures, c \in Calls :
          pending = Pending("matches_signature", f, NoCondition, NoTypes, c.args, c.kwargs)

DoMatchesSignature ==
    /\ pending.op = "matches_signature"
    /\ last' = [op |-> "matches_signature", fun |-> pending.fun,
                args |-> pending.args, kwargs |-> pending.kwargs,
                result |-> matches_signature(pending.fun, pending.args, pending.kwargs)]
    /\ pending' = NoPending
    /\ UNCHANGED <<funcs, nones, order>>

SpecSignature == InitSignature /\ [][DoMatchesSignature]_vars

\* matches_types, applied once; __call__ evaluates it only behind
\* matches_signature (lines 97-98 and 103-104)
InitTypes ==
    /\ InitRegistry
    /\ \E f \in Signatures, t \in TypeLists, c \in Calls :
          /\ matches_signature(f, c.args, c.kwargs)
          /\ pending = Pending("matches_types", f, NoCondition, t, c.args, c.kwargs)

DoMatchesTypes ==
    /\ pending.op = "matches_types"
    /\ last' = [op |-> "matches_types", fun |-> pending.fun, types |-> pending.types,
                args |-> pending.args, kwargs |-> pending.kwargs,
                result |-> matches_types(pending.fun, pending.types.list,
                                         pending.args, pending.kwargs)]
    /\ pending' = NoPending
    /\ UNCHANGED <<funcs, nones, order>>

SpecTypes == InitTypes /\ [][DoMatchesTypes]_vars

\* add, applied once to an empty registry, for a handler and a condition
InitRegister ==
    /\ InitRegistry
    /\ \E f \in Signatures, c \in Signatures \cup Renamed :
          pending = Pending("add", f, c, NoTypes, <<>>, NoKw)

DoAdd ==
    /\ pending.op = "add"
    /\ add(pending.fun, pending.condition, pending.types)
    /\ pending' = NoPending

SpecRegister == InitRegister /\ [][DoAdd]_vars

\* ------------------------------------------- reading the latest function
\* the formal parameters of the latest function's argspec, those a call's
\* positional arguments leave uncovered, and those nothing covers
Formals == correct_argspec(last.fun).args

Remaining == Range(SliceFrom(Formals, Len(last.args)))

Uncovered == Remaining \ DOMAIN last.kwargs

\* the call has no surplus positional argument and no surplus named one
NoSurplus ==
    /\ Len(last.args) > Len(Formals) => last.fun.varargs # None
    /\ (DOMAIN last.kwargs) \ Remaining # {} => last.fun.keywords # None

\* C6 as claimed: the matcher rejects every call that leaves a parameter
\* without a default uncovered, and accepts a call without surplus
\* arguments that omits only defaulted parameters.
C6_MissingParameters ==
    last.op = "matches_signature" =>
        /\ (\E n \in Uncovered : n \notin Defaulted(last.fun)) => ~last.result
        /\ (NoSurplus /\ Uncovered \subseteq Defaulted(last.fun)) => last.result

\* C9: a call with more positional arguments than parameters is rejected
\* unless the handler takes *args, a call with a named argument outside the
\* parameters its positional arguments leave uncovered is rejected unless
\* the handler takes **kwargs, and with *args or **kwargs such a surplus
\* alone does not reject the call.
C9_SurplusArguments ==
    last.op = "matches_signature" =>
        /\ (last.fun.varargs = None /\ Len(last.args) > Len(Formals)) => ~last.result
        /\ (last.fun.keywords = None /\ (DOMAIN last.kwargs) \ Remaining # {})
              => ~last.result
        /\ (last.fun.varargs # None /\ Len(last.args) > Len(Formals)
              /\ DOMAIN last.kwargs = {}) => last.result
        /\ (last.fun.keywords # None /\ Len(last.args) = Len(Formals)) => last.result

\* C9 witness: a call naming a parameter its positional argument already
\* covers was rejected by a handler that has a default for the other one
C9_Witness ==
    /\ last.op = "matches_signature"
    /\ Formals = <<"x", "y">>
    /\ Len(last.fun.defaults) = 1
    /\ last.fun.keywords = None
    /\ Len(last.args) = 1
    /\ DOMAIN last.kwargs = {"x"}
    /\ ~last.result

\* the argument list of a call that binds, defaults included
BoundWithDefaults ==
    [k \in 1..(Len(last.fun.args) - Receiver(last.fun)) |->
        BoundValue(last.fun, last.args, last.kwargs, k)]

\* C7 as claimed: on a call the signature matcher passed, the type gate of
\* a handler with a finite parameter list is a boolean: true iff every
\* value of the bound argument list, defaults included, satisfies the
\* constraint at its position, as far as both lists go.
C7_TypeGate ==
    (/\ last.op = "matches_types"
     /\ last.fun.varargs = None /\ last.fun.keywords = None
     /\ Binds(last.fun, last.args, last.kwargs)) =>
        last.result =
            (IF \A k \in 1..Min(Len(BoundWithDefaults), Len(last.types.list)) :
                    isinstance(BoundWithDefaults[k], last.types.list[k])
             THEN "True" ELSE "False")

\* same parameter names in the same order, same defaulted parameters, same
\* variadic flags
StructurallyIdentical(f, c) ==
    /\ correct_argspec(f).args = correct_argspec(c).args
    /\ Defaulted(f) = Defaulted(c)
    /\ (f.varargs = None) = (c.varargs = None)
    /\ (f.keywords = None) = (c.keywords = None)

Registered ==
    /\ last.exc = "None"
    /\ funcs = <<[fun |-> last.fun, condition |-> last.condition, types |-> last.types]>>
    /\ nones = <<>>

Refused == last.exc = "ValueError" /\ funcs = <<>> /\ nones = <<>>

\* C5 as claimed: register with a condition appends the conditioned entry
\* if the two signatures agree on parameter names, defaulted parameters and
\* variadic flags, and fails otherwise.
C5_SignaturesAgree_AsClaimed ==
    last.op = "add" =>
        IF StructurallyIdentical(last.fun, last.condition) THEN Registered ELSE Refused

\* C5 amended: register with a condition appends the conditioned entry iff
\* the two argspecs are equal after receiver-stripping: same parameter
\* names in the same order, the same *args and **kwargs parameter names (or
\* none), and equal default values; so every pair that differs in names,
\* defaulted parameters or variadic flags fails.
C5_SignaturesAgree ==
    last.op = "add" =>
        /\ IF /\ correct_argspec(last.fun).args = correct_argspec(last.condition).args
              /\ last.fun.varargs = last.condition.varargs
              /\ last.fun.keywords = last.condition.keywords
              /\ last.fun.defaults = last.condition.defaults
           THEN Registered ELSE Refused
        /\ ~StructurallyIdentical(last.fun, last.condition) => Refused

\* C5 witness: a bound method and a function with the same parameters
\* after the receiver, the same default and the same **kw were registered
C5_Witness ==
    /\ last.op = "add"
    /\ last.fun.ismethod /\ last.fun.im_self # None
    /\ ~last.condition.ismethod
    /\ Len(last.fun.defaults) = 1
    /\ last.fun.keywords # None
    /\ Registered

====
